---- MODULE Spec2Model ----
(***************************************************************************)
(* Verification model of the shape-frontend session pipeline:              *)
(*   - useShapeSocket (src/src/lib/useShapeSocket.ts): the pipeline        *)
(*     session controller owning one WebSocket per active session;        *)
(*   - DashboardPage (src/unnamed/part_002): the orchestrator that drives  *)
(*     the controller from upload / history selection / chat, including    *)
(*     its React effects (auto-segmentation, auto-query, transcript).      *)
(*                                                                         *)
(* React state is committed per event: a handler's setState calls are     *)
(* batched, then the effects whose dependencies changed run in source     *)
(* order, and state they set is committed in a further render.  Refs are  *)
(* read and written immediately.  A browser WebSocket delivers `message`  *)
(* only while readyState is OPEN; close() moves it to CLOSING and its     *)
(* `close` event (preceded by `error` when close() hit a socket that was  *)
(* still CONNECTING) is delivered later to the handlers that were         *)
(* attached to that socket object.                                        *)
(*                                                                         *)
(* The chat transcript is written by the program and never read by it     *)
(* (every write is setMessages(literal) or setMessages(prev => [...prev,  *)
(* m])), so the model keeps the setMessages calls of the latest event,    *)
(* in order, instead of the whole transcript.                             *)
(***************************************************************************)
EXTENDS Integers, Sequences, FiniteSets, TLC

(* ---------------------------- bounds ---------------------------------- *)
NumSessions == 2        \* session ids 1..NumSessions
MaxConns == 2           \* WebSocket objects created in one run
MaxSent == 2            \* outbound messages per connection
MaxInFlight == 1        \* concurrent restore continuations per session
MaxToolCalls == 1       \* tool_call progress events per query
MaxLog == 1             \* progress entries, when frames are arbitrary
MaxVersion == 1         \* queryResultVersion, when frames are arbitrary
NumVerts == 3           \* vertices of a fetched surface mesh
NumFaces == 3           \* faces of a fetched surface mesh
FitDistance == 144      \* camera distance at which the scene fits the window
MaxTurn == 40           \* a camera is turned while its azimuth is below this

(* rotation speeds, MeshViewer.tsx:82-84 *)
AZIMUTH_SPEED == 8
ELEVATION_AMP == 3
ELEVATION_PERIOD == 12

NULL == "null"
SessionIds == 1..NumSessions
InitialSessions == {1}  \* history returned by the auth bootstrap

(* PipelinePhase, useShapeSocket.ts:6-21 *)
PipelinePhase ==
  {"idle", "connecting", "connected", "segmenting", "segmented",
   "downsampling", "downsampled", "embedding", "embedded", "stored",
   "segment_done", "parsing_query", "tool_call", "query_done", "error"}

(* ------------------------- inbound inputs ----------------------------- *)
NoData == [kind |-> "none", sid |-> 0, highlight_ids |-> <<>>]
SegmentData(sid) == [kind |-> "segments", sid |-> sid, highlight_ids |-> <<>>]
AnswerData(hl) == [kind |-> "answer", sid |-> 0, highlight_ids |-> hl]
HighlightChoices == {<<2, 5>>}
ServerHighlights == {<<2, 5>>}
ResultPayloads(sid) ==
  {SegmentData(sid)} \cup {AnswerData(hl) : hl \in HighlightChoices}

EmptyDetail == [status |-> NULL, total_segments |-> 0, tool |-> NULL]
Details == {EmptyDetail}
ProgressSteps == {"tool_call", "warming_up"}
Explanations == {NULL}
ServerErrors == {"segmentation failed"}

(* progress steps of one segmentation run, in pipeline order *)
SegmentSteps ==
  <<"segmenting", "segmented", "stored">>

BlankMsg ==
  [type |-> "unknown", step |-> NULL, detail |-> EmptyDetail,
   explanation |-> NULL, data |-> NoData, message |-> NULL]
ConnectedMsg == [BlankMsg EXCEPT !.type = "connected"]
ProgressMsg(st, d, e) ==
  [BlankMsg EXCEPT !.type = "progress", !.step = st, !.detail = d,
                   !.explanation = e]
ResultMsg(p) == [BlankMsg EXCEPT !.type = "result", !.data = p]
ErrorMsg(m) == [BlankMsg EXCEPT !.type = "error", !.message = m]

(* every frame a peer can put on the wire *)
WsIncoming(sid) ==
  {ConnectedMsg}
  \cup {ProgressMsg(st, d, e) :
          st \in ProgressSteps, d \in Details, e \in Explanations}
  \cup {ResultMsg(p) : p \in ResultPayloads(sid)}
  \cup {ErrorMsg(m) : m \in ServerErrors}
  \cup {BlankMsg, [BlankMsg EXCEPT !.type = "malformed"]}

ServerCloseCodes == {1000, 1011, 4001}
AbnormalClosure == 1006
NoStatusRcvd == 1005
AuthFailedCode == 4001

UserTexts == {"what is the radius"}
ModalPrompts == {"", "find the arcs"}
DefaultPrompt == "describe this geometry"

ChatHistories ==
  {<<>>, <<[role |-> "user", content |-> "history"]>>}

(* ---------------------------- state ----------------------------------- *)
VARIABLES
  socks,                \* WebSocket objects ever created, in creation order
  wsRef,                \* useShapeSocket.ts:49, index into socks, 0 = null
  phase,                \* :50
  progressLog,          \* :51
  progressText,         \* :52
  segmentResult,        \* :53
  queryResult,          \* :54
  queryResultVersion,   \* :55
  error,                \* :56
  isConnected,          \* :57
  expectingRef,         \* :59
  activeSession,        \* part_002:91, 0 = null
  messageOps,           \* part_002:93, the setMessages calls of the latest event
  pendingPromptRef,     \* part_002:106
  needsSegmentationRef, \* part_002:107
  highlightIds,         \* part_002:108
  freshSegmentationRef, \* part_002:154
  sessions,             \* part_003 (auth) sessions list
  restoring,            \* handleSelectSession continuations awaiting fetches
  mounted,              \* the dashboard (and the hook) is mounted
  renders,              \* the phase changes the latest event's renders showed
  viewer,               \* the MeshViewer component, MeshViewer.tsx:31-49
  last                  \* the operation that produced this state

vars ==
  <<socks, wsRef, phase, progressLog, progressText, segmentResult,
    queryResult, queryResultVersion, error, isConnected, expectingRef,
    activeSession, messageOps, pendingPromptRef,
    needsSegmentationRef, highlightIds, freshSegmentationRef, sessions,
    restoring, mounted, renders, viewer, last>>

(* The state as one record, so that handlers compose as functions. *)
Cur ==
  [socks |-> socks, wsRef |-> wsRef, phase |-> phase,
   progressLog |-> progressLog, progressText |-> progressText,
   segmentResult |-> segmentResult, queryResult |-> queryResult,
   queryResultVersion |-> queryResultVersion, error |-> error,
   isConnected |-> isConnected, expectingRef |-> expectingRef,
   activeSession |-> activeSession, messageOps |-> <<>>,
   pendingPromptRef |-> pendingPromptRef,
   needsSegmentationRef |-> needsSegmentationRef,
   highlightIds |-> highlightIds,
   freshSegmentationRef |-> freshSegmentationRef, sessions |-> sessions,
   restoring |-> restoring, mounted |-> mounted, renders |-> <<>>]

WithinBounds(s) ==
  /\ Len(s.socks) <= MaxConns
  /\ \A c \in 1..Len(s.socks) : Len(s.socks[c].sent) <= MaxSent
  /\ \A sid \in SessionIds : s.restoring[sid] <= MaxInFlight

Commit(handled, op) ==
  \E s \in {handled} :
    /\ WithinBounds(s)
    /\ socks' = s.socks
    /\ wsRef' = s.wsRef
    /\ phase' = s.phase
    /\ progressLog' = s.progressLog
    /\ progressText' = s.progressText
    /\ segmentResult' = s.segmentResult
    /\ queryResult' = s.queryResult
    /\ queryResultVersion' = s.queryResultVersion
    /\ error' = s.error
    /\ isConnected' = s.isConnected
    /\ expectingRef' = s.expectingRef
    /\ activeSession' = s.activeSession
    /\ messageOps' = s.messageOps
    /\ pendingPromptRef' = s.pendingPromptRef
    /\ needsSegmentationRef' = s.needsSegmentationRef
    /\ highlightIds' = s.highlightIds
    /\ freshSegmentationRef' = s.freshSegmentationRef
    /\ sessions' = s.sessions
    /\ restoring' = s.restoring
    /\ mounted' = s.mounted
    /\ renders' = s.renders
    /\ viewer' = viewer
    /\ last' = op

(* ----------------------- browser WebSocket ---------------------------- *)
(* sid, readyState, sent: the socket; failed: close() hit it while it was
   connecting; acked, done, stage: the peer's position in the protocol
   (connected sent, commands answered, progress events of the current
   command sent). *)
NewWebSocket(sid) ==
  [sid |-> sid, readyState |-> "CONNECTING", failed |-> FALSE, sent |-> <<>>,
   acked |-> FALSE, done |-> 0, stage |-> 0]

(* ws.close(): OPEN -> CLOSING; CONNECTING -> CLOSING with the connection
   failed (its error event precedes its close event); otherwise nothing. *)
wsClose(ss, c) ==
  IF ss[c].readyState = "CONNECTING"
    THEN [ss EXCEPT ![c].readyState = "CLOSING", ![c].failed = TRUE]
  ELSE IF ss[c].readyState = "OPEN"
    THEN [ss EXCEPT ![c].readyState = "CLOSING"]
  ELSE ss

wsSend(ss, c, m) == [ss EXCEPT ![c].sent = Append(@, m)]

WsIsOpen(s) == s.wsRef # 0 /\ s.socks[s.wsRef].readyState = "OPEN"

(* ------------------- useShapeSocket: operations ----------------------- *)
disconnect_earlyReturn(s) ==
  IF s.wsRef = 0 THEN s
  ELSE [s EXCEPT !.socks = wsClose(s.socks, s.wsRef), !.wsRef = 0,
                 !.isConnected = FALSE, !.phase = "idle"]

disconnect_clearResults(s) ==
  LET s1 == IF s.wsRef # 0
              THEN [s EXCEPT !.socks = wsClose(s.socks, s.wsRef), !.wsRef = 0]
              ELSE s
  IN [s1 EXCEPT !.isConnected = FALSE, !.phase = "idle",
                !.segmentResult = NoData, !.queryResult = NoData]

(* disconnect, useShapeSocket.ts:61-69 *)
disconnect(s) ==
  LET s1 == IF s.wsRef # 0
              THEN [s EXCEPT !.socks = wsClose(s.socks, s.wsRef), !.wsRef = 0]
              ELSE s
  IN [s1 EXCEPT !.isConnected = FALSE, !.phase = "idle"]

connect_noClose(s, sid) ==
  [s EXCEPT !.phase = "connecting",
            !.error = NULL,
            !.progressLog = <<>>,
            !.progressText = "",
            !.socks = Append(s.socks, NewWebSocket(sid)),
            !.wsRef = Len(s.socks) + 1]

(* connect, useShapeSocket.ts:71-89 (the handlers it attaches are below) *)
connect(s, sid) ==
  LET s1 == IF s.wsRef # 0
              THEN [s EXCEPT !.socks = wsClose(s.socks, s.wsRef)]
              ELSE s
  IN [s1 EXCEPT !.phase = "connecting",
                !.error = NULL,
                !.progressLog = <<>>,
                !.progressText = "",
                !.socks = Append(s1.socks, NewWebSocket(sid)),
                !.wsRef = Len(s1.socks) + 1]

(* ws.onopen, useShapeSocket.ts:91-94 *)
onopen(s) == [s EXCEPT !.isConnected = TRUE]

(* msg.step.replace(/_/g, " "), useShapeSocket.ts:142 *)
ReplaceUnderscores(step) ==
  CASE step = "tool_call" -> "tool call"
    [] step = "warming_up" -> "warming up"
    [] step = "parsing_query" -> "parsing query"
    [] step = "segment_done" -> "segment done"
    [] step = "query_done" -> "query done"
    [] OTHER -> step

Truthy(str) == str # NULL /\ str # ""

(* progress text selection, useShapeSocket.ts:128-143 *)
ProgressTextOf(msg) ==
  IF Truthy(msg.explanation) THEN msg.explanation
  ELSE IF Truthy(msg.detail.status) THEN msg.detail.status
  ELSE IF msg.step = "segmented" /\ msg.detail.total_segments # 0
    THEN "Found N segments"
  ELSE IF msg.step = "downsampled" THEN "Downsampled N segments"
  ELSE IF msg.step = "embedded" THEN "Embedded N segments"
  ELSE IF msg.step = "tool_call" /\ Truthy(msg.detail.tool)
    THEN "Calling tool..."
  ELSE ReplaceUnderscores(msg.step)

(* ProgressEntry, useShapeSocket.ts:118-123 (the timestamp is not kept) *)
ProgressEntry(msg) ==
  [step |-> msg.step, detail |-> msg.detail, explanation |-> msg.explanation]

(* "answer" in data, useShapeSocket.ts:149-150 *)
HasAnswer(data) == data.kind = "answer"

IsQueryResult_flagOnly(expecting, data) == expecting = "query"

(* result classification, useShapeSocket.ts:150 *)
IsQueryResult(expecting, data) == expecting = "query" \/ HasAnswer(data)

ConnectedPhase_regress(prev) == "connected"

(* the setPhase updater of case "connected", useShapeSocket.ts:114 *)
ConnectedPhase(prev) ==
  IF prev = "connecting" \/ prev = "idle" THEN "connected" ELSE prev

onmessage_prepend(s, msg) ==
  CASE msg.type = "malformed" -> s
    [] msg.type = "connected" -> [s EXCEPT !.phase = ConnectedPhase(@)]
    [] msg.type = "progress" ->
         [s EXCEPT !.progressLog = <<ProgressEntry(msg)>> \o @,
                   !.phase = msg.step,
                   !.progressText = ProgressTextOf(msg)]
    [] msg.type = "result" ->
         IF IsQueryResult(s.expectingRef, msg.data)
           THEN [s EXCEPT !.queryResult = msg.data,
                          !.queryResultVersion = @ + 1,
                          !.phase = "query_done",
                          !.progressText = "",
                          !.expectingRef = NULL]
           ELSE [s EXCEPT !.segmentResult = msg.data,
                          !.phase = "segment_done",
                          !.progressText = "",
                          !.expectingRef = NULL]
    [] msg.type = "error" ->
         [s EXCEPT !.error = msg.message,
                   !.phase = "error",
                   !.progressText = ""]
    [] OTHER -> s

(* ws.onmessage, useShapeSocket.ts:96-177 *)
onmessage(s, msg) ==
  CASE msg.type = "malformed" -> s
    [] msg.type = "connected" -> [s EXCEPT !.phase = ConnectedPhase(@)]
    [] msg.type = "progress" ->
         [s EXCEPT !.progressLog = Append(@, ProgressEntry(msg)),
                   !.phase = msg.step,
                   !.progressText = ProgressTextOf(msg)]
    [] msg.type = "result" ->
         IF IsQueryResult(s.expectingRef, msg.data)
           THEN [s EXCEPT !.queryResult = msg.data,
                          !.queryResultVersion = @ + 1,
                          !.phase = "query_done",
                          !.progressText = "",
                          !.expectingRef = NULL]
           ELSE [s EXCEPT !.segmentResult = msg.data,
                          !.phase = "segment_done",
                          !.progressText = "",
                          !.expectingRef = NULL]
    [] msg.type = "error" ->
         [s EXCEPT !.error = msg.message,
                   !.phase = "error",
                   !.progressText = ""]
    [] OTHER -> s

onclose_keepError(s, code) ==
  LET s1 == [s EXCEPT !.isConnected = FALSE]
  IN IF code = AuthFailedCode /\ s.error = NULL
       THEN [s1 EXCEPT !.error = "Authentication failed. Please sign in again.",
                       !.phase = "error"]
       ELSE s1

(* ws.onclose, useShapeSocket.ts:179-186 *)
onclose(s, code) ==
  LET s1 == [s EXCEPT !.isConnected = FALSE]
  IN IF code = AuthFailedCode
       THEN [s1 EXCEPT !.error = "Authentication failed. Please sign in again.",
                       !.phase = "error"]
       ELSE s1

onerror_keepPhase(s) ==
  [s EXCEPT !.error = "WebSocket connection failed.",
            !.isConnected = FALSE]

(* ws.onerror, useShapeSocket.ts:188-193 *)
onerror(s) ==
  [s EXCEPT !.error = "WebSocket connection failed.",
            !.phase = "error",
            !.isConnected = FALSE]

(* a ?? b *)
Nullish(a, b) == IF a = <<>> THEN b ELSE a[1]
NoOpts == [target_step |-> <<>>, downsample_nodes |-> <<>>, embed |-> <<>>]

(* the options a caller passes: none, or every field given with a falsy
   value (0, false) *)
ExplicitOpts == [target_step |-> <<0>>, downsample_nodes |-> <<0>>,
                 embed |-> <<FALSE>>]
TriggerOpts == [defaults |-> NoOpts, explicit |-> ExplicitOpts]

UploadAndSegment_falsyDefault(opts) ==
  [type |-> "upload_and_segment",
   target_step |-> IF opts.target_step \in {<<>>, <<0>>}
                     THEN 1 ELSE opts.target_step[1],
   downsample_nodes |-> IF opts.downsample_nodes \in {<<>>, <<0>>}
                          THEN 16 ELSE opts.downsample_nodes[1],
   embed |-> IF opts.embed \in {<<>>, <<FALSE>>}
               THEN TRUE ELSE opts.embed[1],
   query |-> NULL]

(* the payload of triggerSegmentation, useShapeSocket.ts:209-214 *)
UploadAndSegment(opts) ==
  [type |-> "upload_and_segment",
   target_step |-> Nullish(opts.target_step, 1),
   downsample_nodes |-> Nullish(opts.downsample_nodes, 16),
   embed |-> Nullish(opts.embed, TRUE),
   query |-> NULL]

QueryMsg(query) ==
  [type |-> "query", target_step |-> 0, downsample_nodes |-> 0,
   embed |-> FALSE, query |-> query]

triggerSegmentation_queryFlag(s, opts) ==
  IF ~WsIsOpen(s) THEN s
  ELSE [s EXCEPT !.expectingRef = "query",
                 !.progressLog = <<>>,
                 !.progressText = "Starting segmentation...",
                 !.phase = "segmenting",
                 !.socks = wsSend(@, s.wsRef, UploadAndSegment(opts))]

triggerSegmentation_noReadyCheck(s, opts) ==
  IF s.wsRef = 0 THEN s
  ELSE [s EXCEPT !.expectingRef = "segment",
                 !.progressLog = <<>>,
                 !.progressText = "Starting segmentation...",
                 !.phase = "segmenting",
                 !.socks = wsSend(@, s.wsRef, UploadAndSegment(opts))]

(* triggerSegmentation, useShapeSocket.ts:198-219 *)
triggerSegmentation(s, opts) ==
  IF ~WsIsOpen(s) THEN s
  ELSE [s EXCEPT !.expectingRef = "segment",
                 !.progressLog = <<>>,
                 !.progressText = "Starting segmentation...",
                 !.phase = "segmenting",
                 !.socks = wsSend(@, s.wsRef, UploadAndSegment(opts))]

sendQuery_noFlag(s, query) ==
  IF ~WsIsOpen(s) THEN s
  ELSE [s EXCEPT !.progressText = "Understanding your question...",
                 !.phase = "parsing_query",
                 !.socks = wsSend(@, s.wsRef, QueryMsg(query))]

(* sendQuery, useShapeSocket.ts:221-233 *)
sendQuery(s, query) ==
  IF ~WsIsOpen(s) THEN s
  ELSE [s EXCEPT !.expectingRef = "query",
                 !.progressText = "Understanding your question...",
                 !.phase = "parsing_query",
                 !.socks = wsSend(@, s.wsRef, QueryMsg(query))]

(* unmount cleanup, useShapeSocket.ts:235-243 *)
unmountCleanup(s) ==
  IF s.wsRef # 0
    THEN [s EXCEPT !.socks = wsClose(s.socks, s.wsRef), !.wsRef = 0]
    ELSE s

(* --------------------- DashboardPage: effects ------------------------- *)
(* Each effect takes the previously rendered state prev, the state r of the
   render that has just been committed, and the state acc accumulated so
   far in this commit: dependencies and closure values come from prev and
   r, refs are read from acc, and every update is applied to acc. *)

ChatMessage(role, text) == [role |-> role, text |-> text]

(* setMessages(value) and setMessages((prev) => [...prev, m]) *)
setMessages(s, value) ==
  [s EXCEPT !.messageOps = Append(@, [op |-> "set", value |-> value])]
appendMessage(s, m) ==
  [s EXCEPT !.messageOps = Append(@, [op |-> "append", value |-> <<m>>])]

(* isProcessing, part_002:72-78 *)
isProcessing(p) ==
  p \in {"connecting", "segmenting", "segmented", "downsampling",
         "downsampled", "embedding", "embedded", "stored",
         "parsing_query", "tool_call"}

(* String.prototype.trim on the prompts that are entered *)
Trim(str) == IF str = "   " THEN "" ELSE str

(* auto-query effect, part_002:156-174 *)
autoQueryEffect(prev, r, acc) ==
  IF /\ prev.phase # r.phase \/ prev.segmentResult # r.segmentResult
     /\ r.phase = "segment_done"
     /\ r.segmentResult # NoData
     /\ acc.freshSegmentationRef
    THEN LET prompt == IF acc.pendingPromptRef # NULL
                            /\ Trim(acc.pendingPromptRef) # ""
                         THEN Trim(acc.pendingPromptRef)
                         ELSE DefaultPrompt
             a1 == appendMessage([acc EXCEPT !.freshSegmentationRef = FALSE],
                                 ChatMessage("system", "Segmentation complete"))
             a2 == appendMessage([a1 EXCEPT !.pendingPromptRef = NULL],
                                 ChatMessage("user", prompt))
         IN sendQuery(a2, prompt)
    ELSE acc

(* queryResult.answer; undefined when the stored payload has no answer *)
AnswerText(data) == IF HasAnswer(data) THEN "answer" ELSE "undefined"

queryResultEffect_noHighlight(prev, r, acc) ==
  IF prev.queryResultVersion # r.queryResultVersion /\ r.queryResult # NoData
    THEN appendMessage(acc, ChatMessage("assistant", AnswerText(r.queryResult)))
    ELSE acc

queryResultEffect_byValue(prev, r, acc) ==
  IF prev.queryResult # r.queryResult /\ r.queryResult # NoData
    THEN [appendMessage(acc, ChatMessage("assistant", AnswerText(r.queryResult)))
            EXCEPT !.highlightIds = IF Len(r.queryResult.highlight_ids) > 0
                                      THEN r.queryResult.highlight_ids ELSE @]
    ELSE acc

(* queryResult effect, part_002:176-183 *)
queryResultEffect(prev, r, acc) ==
  IF prev.queryResultVersion # r.queryResultVersion /\ r.queryResult # NoData
    THEN [appendMessage(acc, ChatMessage("assistant", AnswerText(r.queryResult)))
            EXCEPT !.highlightIds = IF Len(r.queryResult.highlight_ids) > 0
                                      THEN r.queryResult.highlight_ids ELSE @]
    ELSE acc

(* wsError effect, part_002:185-190 *)
wsErrorEffect(prev, r, acc) ==
  IF prev.error # r.error /\ r.error # NULL /\ r.error # ""
    THEN appendMessage(acc, ChatMessage("system", "Error: " \o r.error))
    ELSE acc

(* auto-segmentation effect, part_002:192-198 *)
autoSegmentEffect(prev, r, acc) ==
  IF /\ prev.phase # r.phase \/ prev.activeSession # r.activeSession
     /\ r.phase = "connected"
     /\ r.activeSession # 0
     /\ acc.needsSegmentationRef
    THEN triggerSegmentation(
           [acc EXCEPT !.needsSegmentationRef = FALSE,
                       !.freshSegmentationRef = TRUE], NoOpts)
    ELSE acc

(* One commit: the effects in source order, part_002:156-198 *)
RunEffectsOnce(prev, r) ==
  LET a1 == autoQueryEffect(prev, r, r)
      a2 == queryResultEffect(prev, r, a1)
      a3 == wsErrorEffect(prev, r, a2)
  IN autoSegmentEffect(prev, r, a3)

(* the values of seq from the second on that differ from the one before *)
RECURSIVE PhaseChanges(_)
PhaseChanges(seq) ==
  IF Len(seq) < 2 THEN <<>>
  ELSE IF seq[2] = seq[1] THEN PhaseChanges(Tail(seq))
  ELSE <<seq[2]>> \o PhaseChanges(Tail(seq))

(* Renders repeat until no effect sets state (two rounds settle every
   chain in this program; the third shows it). Each render is committed
   with the phase it was given before its effects run. *)
RunEffects(prev, s) ==
  LET r1 == RunEffectsOnce(prev, s)
      r2 == RunEffectsOnce(s, r1)
      r3 == RunEffectsOnce(r1, r2)
  IN [r3 EXCEPT !.renders =
        PhaseChanges(<<prev.phase, s.phase, r1.phase, r2.phase, r3.phase>>)]

(* After unmount setState calls are dropped; refs and sockets still change. *)
RefsOnly(prev, s) ==
  [prev EXCEPT !.socks = s.socks, !.wsRef = s.wsRef,
               !.expectingRef = s.expectingRef,
               !.pendingPromptRef = s.pendingPromptRef,
               !.needsSegmentationRef = s.needsSegmentationRef,
               !.freshSegmentationRef = s.freshSegmentationRef,
               !.sessions = s.sessions,
               !.restoring = s.restoring]

Render(prev, s) ==
  IF prev.mounted THEN RunEffects(prev, s) ELSE RefsOnly(prev, s)

(* --------------------- DashboardPage: handlers ------------------------ *)
(* handleSendMessage, part_002:227-236 *)
handleSendMessage(s, chatInput) ==
  LET text == Trim(chatInput)
  IN IF text = "" \/ s.activeSession = 0 \/ isProcessing(s.phase) THEN s
     ELSE sendQuery(appendMessage(s, ChatMessage("user", text)), text)

(* addSession, part_003 (auth provider) *)
addSession(ss, sid) == ss \cup {sid}

(* handleCreateInteraction once the upload has resolved, part_002:248-260
   (the modal fields it also sets are not part of the model) *)
handleCreateInteraction(s, sid, modalPrompt) ==
  LET s1 == [s EXCEPT
               !.sessions = addSession(@, sid),
               !.pendingPromptRef = IF modalPrompt = "" THEN NULL ELSE modalPrompt,
               !.needsSegmentationRef = TRUE,
               !.activeSession = sid]
      s2 == setMessages(s1, <<ChatMessage("system", "Uploaded")>>)
  IN connect(s2, sid)

(* handleSelectSession up to its await, part_002:295-314 *)
handleSelectSession(s, sid) ==
  IF sid = s.activeSession THEN s
  ELSE LET s0 == setMessages([disconnect(s) EXCEPT !.activeSession = sid], <<>>)
           s1 == [s0 EXCEPT !.highlightIds = <<>>, !.segmentResult = NoData]
       IN [connect(s1, sid) EXCEPT !.restoring[sid] = @ + 1]

RestoredMessage(m) ==
  ChatMessage(IF m.role = "user" THEN "user" ELSE "assistant", m.content)

(* handleSelectSession after its await, part_002:316-335 *)
restoreSession_allOrNothing(s, sid, chatHistory, segments) ==
  LET s1 == [s EXCEPT !.restoring[sid] = @ - 1]
  IN IF Len(chatHistory) > 0 /\ segments # NoData
       THEN [setMessages(s1,
               [i \in 1..Len(chatHistory) |-> RestoredMessage(chatHistory[i])])
             EXCEPT !.segmentResult = segments, !.phase = "segment_done"]
       ELSE s1

restoreSession(s, sid, chatHistory, segments) ==
  LET s1 == [s EXCEPT !.restoring[sid] = @ - 1]
      s2 == IF Len(chatHistory) > 0
              THEN setMessages(s1,
                     [i \in 1..Len(chatHistory) |-> RestoredMessage(chatHistory[i])])
              ELSE s1
  IN IF segments # NoData
       THEN [s2 EXCEPT !.segmentResult = segments, !.phase = "segment_done"]
       ELSE s2

(* ------------------------- MeshViewer: inputs ------------------------- *)
(* A SurfaceMesh (part_003:83-86) is kept as the session it belongs to and
   the lengths of its vertex and face lists. *)
NoMesh == [kind |-> "none", sid |-> 0, vertices |-> 0, faces |-> 0]
MeshPayloads(sid) ==
  {[kind |-> "mesh", sid |-> sid, vertices |-> v, faces |-> f] :
     v \in {0, NumVerts}, f \in {0, NumFaces}}

(* what the request behind getSurfaceMesh comes back with: a body, a non-ok
   HTTP status, or a rejection of fetch itself (its message may be empty) *)
MeshResponses(sid) ==
  {[kind |-> "ok", status |-> 200, data |-> m, message |-> ""] :
     m \in MeshPayloads(sid)}
  \cup {[kind |-> "http", status |-> 500, data |-> NoMesh, message |-> ""]}
  \cup {[kind |-> "reject", status |-> 0, data |-> NoMesh, message |-> msg] :
          msg \in {""}}

(* getSurfaceMesh, part_003:88-97: the promise it returns *)
getSurfaceMesh(res) ==
  CASE res.kind = "reject" ->
         [settled |-> "rejected", data |-> NoMesh, message |-> res.message]
    [] res.kind = "http" ->
         [settled |-> "rejected", data |-> NoMesh,
          message |-> "Failed to load surface mesh (" \o ToString(res.status) \o ")"]
    [] OTHER ->
         [settled |-> "fulfilled", data |-> res.data, message |-> ""]

(* a Segment (part_003:147-162): downsampled_nodes is kept as its length,
   face_ids are 0-based face indices *)
Segment(id, type, face_ids, nodes) ==
  [segment_id |-> id, type |-> type, face_ids |-> face_ids,
   downsampled_nodes |-> nodes]

(* the segmentResult prop: null, or the segments of a SegmentResult, in
   result order.  The lists overlap on face 1, leave face 2 to nobody, name
   a face the mesh does not have, and carry a type the table does not. *)
NoSegments == [kind |-> "none", segments |-> <<>>]
ViewerResults ==
  {NoSegments,
   [kind |-> "result",
    segments |-> <<Segment(2, "straight", <<0, 1>>, 2),
                   Segment(5, "arc", <<1, NumFaces>>, 3)>>],
   [kind |-> "result",
    segments |-> <<Segment(5, "helix", <<1>>, 2),
                   Segment(2, "junction", <<0, 1>>, 1)>>]}

(* the highlightIds prop *)
ViewerHighlights == {<<>>, <<2, 9>>}

(* the opacity prop, in percent (part_002:118, 458-462) *)
Opacities == {40, 100}

(* ------------------------ MeshViewer: colours ------------------------- *)
(* MeshViewer.tsx:404-409 *)
SEGMENT_COLORS ==
  [straight |-> <<90, 178, 242>>, arc |-> <<242, 140, 90>>,
   junction |-> <<110, 210, 110>>, corner |-> <<230, 100, 140>>]
(* MeshViewer.tsx:411 *)
DEFAULT_MESH_COLOR == <<200, 200, 210>>
(* MeshViewer.tsx:412 *)
HIGHLIGHT_COLOR == <<255, 230, 80>>

(* Array.prototype.includes *)
Includes(seq, x) == \E i \in DOMAIN seq : seq[i] = x

(* colour of a segment on the surface, MeshViewer.tsx:226-229 *)
SurfaceColor_atLeast(seg, ids) ==
  IF \E i \in DOMAIN ids : ids[i] >= seg.segment_id
    THEN HIGHLIGHT_COLOR
    ELSE IF seg.type \in DOMAIN SEGMENT_COLORS
           THEN SEGMENT_COLORS[seg.type]
           ELSE DEFAULT_MESH_COLOR

SurfaceColor(seg, ids) ==
  IF Includes(ids, seg.segment_id)
    THEN HIGHLIGHT_COLOR
    ELSE IF seg.type \in DOMAIN SEGMENT_COLORS
           THEN SEGMENT_COLORS[seg.type]
           ELSE DEFAULT_MESH_COLOR

(* colour of a segment's centerline, MeshViewer.tsx:281-284 *)
CenterlineColor_typeOnly(seg, ids) ==
  IF seg.type \in DOMAIN SEGMENT_COLORS
    THEN SEGMENT_COLORS[seg.type]
    ELSE DEFAULT_MESH_COLOR

CenterlineColor(seg, ids) ==
  IF Includes(ids, seg.segment_id)
    THEN HIGHLIGHT_COLOR
    ELSE IF seg.type \in DOMAIN SEGMENT_COLORS
           THEN SEGMENT_COLORS[seg.type]
           ELSE DEFAULT_MESH_COLOR

(* one segment written into the face colour buffer, MeshViewer.tsx:232-240;
   buffer index i holds face i - 1 *)
PaintFaces_keepFirst(faceColors, seg, color) ==
  [i \in DOMAIN faceColors |->
     IF Includes(seg.face_ids, i - 1) /\ faceColors[i] = DEFAULT_MESH_COLOR
       THEN color
       ELSE faceColors[i]]

PaintFaces(faceColors, seg, color) ==
  [i \in DOMAIN faceColors |->
     IF Includes(seg.face_ids, i - 1) THEN color ELSE faceColors[i]]

(* the loop over the segments, MeshViewer.tsx:224-244 *)
RECURSIVE PaintSegments(_, _, _)
PaintSegments(faceColors, segments, ids) ==
  IF segments = <<>>
    THEN faceColors
    ELSE PaintSegments(
           PaintFaces(faceColors, Head(segments),
                      SurfaceColor(Head(segments), ids)),
           Tail(segments), ids)

(* the face colour buffer, MeshViewer.tsx:217-244 *)
FaceColors(numFaces, result, ids) ==
  PaintSegments([i \in 1..numFaces |-> DEFAULT_MESH_COLOR],
                result.segments, ids)

(* the centerline colour buffer, one entry per node of every segment that
   has at least two nodes, MeshViewer.tsx:270-289 *)
RECURSIVE CenterlineColors(_, _)
CenterlineColors(segments, ids) ==
  IF segments = <<>>
    THEN <<>>
    ELSE LET seg == Head(segments)
             rest == CenterlineColors(Tail(segments), ids)
         IN IF seg.downsampled_nodes < 2
              THEN rest
              ELSE [n \in 1..seg.downsampled_nodes |->
                      CenterlineColor(seg, ids)] \o rest

(* ------------------------- MeshViewer: camera ------------------------- *)
(* A vtk camera is kept as the azimuth and elevation it was turned by, in
   degrees, and its distance to the focal point. *)
FreshCamera == [azimuth |-> 0, elevation |-> 0, distance |-> FitDistance]

(* camera.azimuth(a), camera.elevation(e) *)
Turn(cam, a, e) ==
  [cam EXCEPT !.azimuth = (@ + a) % 360, !.elevation = @ + e]

(* camera.dolly(f), f given as a fraction: the distance is divided by f *)
Dolly(cam, f) == [cam EXCEPT !.distance = (@ * f[2]) \div f[1]]

(* renderer.resetCamera(): the camera is moved along its view direction
   until the scene fits; its direction is kept *)
Fit(cam) == [cam EXCEPT !.distance = FitDistance]

(* the view every build and every resetCamera turns to,
   MeshViewer.tsx:70-72, 331-333 *)
ViewTurn == [azimuth |-> 25, elevation |-> 15]
(* the factors of zoomIn and zoomOut, MeshViewer.tsx:55, 63 *)
ZoomFactor == [zoomIn |-> <<12, 10>>, zoomOut |-> <<8, 10>>]

(* Math.sin(2 * PI * t / ELEVATION_PERIOD) for t a multiple of a quarter
   period *)
SinTurns(t) ==
  CASE (4 * t) % (4 * ELEVATION_PERIOD) = ELEVATION_PERIOD -> 1
    [] (4 * t) % (4 * ELEVATION_PERIOD) = 3 * ELEVATION_PERIOD -> -1
    [] OTHER -> 0

(* the frame intervals of the animation, in seconds *)
FrameSeconds == {3}

(* ---------------------- MeshViewer: component ------------------------- *)
NoContext == [kind |-> "none"]

(* the props, the state (surfaceMesh, loading, error), the refs, the
   requestAnimationFrame callbacks the browser holds (rafQueue), the
   getSurfaceMesh promises not settled yet (fetches), the vtk contexts
   created and not deleted (contexts), whether the last run of the render
   effect returned a cleanup (hasCleanup), and the contexts the latest
   event deleted and created, in order (sceneOps) *)
NoViewer ==
  [status |-> "absent",
   props |-> [sessionId |-> 0, segmentResult |-> NoSegments,
              highlightIds |-> <<>>, opacity |-> 40],
   surfaceMesh |-> NoMesh, loading |-> FALSE, error |-> NULL,
   containerRef |-> FALSE, vtkContextRef |-> NoContext,
   surfaceActorRef |-> FALSE, rendererRef |-> FALSE,
   rotatingRef |-> TRUE, rafIdRef |-> NULL, rotationAngleRef |-> 0,
   rafQueue |-> 0, fetches |-> {}, contexts |-> 0, hasCleanup |-> FALSE,
   sceneOps |-> <<>>]

(* which of the five views is returned, MeshViewer.tsx:356-397: only the
   last one carries the container *)
ShowsContainer(v) == ~v.loading /\ v.error = NULL /\ v.surfaceMesh # NoMesh

(* vtkContextRef.current.delete() and its reset, MeshViewer.tsx:178-181,
   346-349 *)
deleteContext_forget(v) == [v EXCEPT !.vtkContextRef = NoContext]

deleteContext(v) ==
  IF v.vtkContextRef # NoContext
    THEN [v EXCEPT !.contexts = @ - 1, !.vtkContextRef = NoContext,
                   !.sceneOps = Append(@, "delete")]
    ELSE v

startRotation_noGuard(v) == [v EXCEPT !.rafIdRef = "raf", !.rafQueue = @ + 1]

(* startRotation, MeshViewer.tsx:78-80, 113 *)
startRotation(v) ==
  IF v.rafIdRef # NULL
    THEN v
    ELSE [v EXCEPT !.rafIdRef = "raf", !.rafQueue = @ + 1]

(* stopRotation, MeshViewer.tsx:116-121 *)
stopRotation_noCancel(v) == [v EXCEPT !.rafIdRef = NULL]

stopRotation(v) ==
  IF v.rafIdRef # NULL
    THEN [v EXCEPT !.rafQueue = @ - 1, !.rafIdRef = NULL]
    ELSE v

(* toggleRotation, MeshViewer.tsx:123-131; it returns the rotatingRef of
   its result *)
toggleRotation(v) ==
  LET v1 == [v EXCEPT !.rotatingRef = ~@]
  IN IF v1.rotatingRef THEN startRotation(v1) ELSE stopRotation(v1)

(* animate, MeshViewer.tsx:86-111, run by the browser for one queued
   callback, dt seconds after the previous frame *)
animate(v, dt) ==
  LET v0 == [v EXCEPT !.rafQueue = @ - 1]
      t == (v0.rotationAngleRef + dt) % ELEVATION_PERIOD
      cam == v0.vtkContextRef.camera
      v1 == IF v0.rendererRef
              THEN [v0 EXCEPT
                      !.rotationAngleRef = t,
                      !.vtkContextRef.camera =
                         Turn(cam, AZIMUTH_SPEED * dt,
                              SinTurns(t) * ELEVATION_AMP * dt)]
              ELSE v0
  IN IF ~v0.rotatingRef
       THEN [v0 EXCEPT !.rafIdRef = NULL]
       ELSE [v1 EXCEPT !.rafIdRef = "raf", !.rafQueue = @ + 1]

(* zoomIn and zoomOut, MeshViewer.tsx:52-66 *)
zoom(v, dir) ==
  IF ~v.rendererRef
    THEN v
    ELSE [v EXCEPT !.vtkContextRef.camera = Dolly(@, ZoomFactor[dir])]

(* resetCamera, MeshViewer.tsx:68-75 *)
resetCamera(v) ==
  IF ~v.rendererRef
    THEN v
    ELSE [v EXCEPT !.vtkContextRef.camera =
                      Turn(Fit(@), ViewTurn.azimuth, ViewTurn.elevation)]

(* the opacity effect, MeshViewer.tsx:137-143 *)
opacityEffect(v) ==
  IF v.surfaceActorRef /\ v.rendererRef
    THEN [v EXCEPT !.vtkContextRef.opacity = v.props.opacity]
    ELSE v

(* the fetch effect up to its request, MeshViewer.tsx:146-152 *)
fetchEffect(v) ==
  IF v.props.sessionId = 0
    THEN v
    ELSE [v EXCEPT !.loading = TRUE, !.error = NULL,
                   !.fetches = @ \cup {v.props.sessionId}]

(* the continuations of the request, MeshViewer.tsx:153-166 *)
fetchSettled_storeEmpty(v, promise) ==
  IF promise.settled = "rejected"
    THEN [v EXCEPT !.loading = FALSE, !.error = "Could not load mesh"]
    ELSE [v EXCEPT !.loading = FALSE, !.surfaceMesh = promise.data]

fetchSettled(v, promise) ==
  LET v1 == CASE promise.settled = "rejected" ->
                   [v EXCEPT !.error =
                      "Could not load mesh: " \o
                        (IF promise.message = "" THEN "unknown error"
                                                 ELSE promise.message)]
              [] promise.data.vertices = 0 \/ promise.data.faces = 0 ->
                   [v EXCEPT !.error =
                      "Mesh data is empty or has unexpected format."]
              [] OTHER -> [v EXCEPT !.surfaceMesh = promise.data]
  IN [v1 EXCEPT !.loading = FALSE]

(* the cleanup the render effect returns, MeshViewer.tsx:342-351 *)
renderCleanup(v) ==
  deleteContext([stopRotation(v) EXCEPT !.surfaceActorRef = FALSE,
                                        !.rendererRef = FALSE,
                                        !.hasCleanup = FALSE])

(* the scene a build makes, MeshViewer.tsx:184-335 *)
Scene(v) ==
  [kind |-> "scene", mesh |-> v.surfaceMesh,
   faceColors |-> FaceColors(v.surfaceMesh.faces, v.props.segmentResult,
                             v.props.highlightIds),
   clColors |-> CenterlineColors(v.props.segmentResult.segments,
                                 v.props.highlightIds),
   opacity |-> v.props.opacity,
   camera |-> Turn(Fit(FreshCamera), ViewTurn.azimuth, ViewTurn.elevation)]

(* the render effect, MeshViewer.tsx:170-341 *)
renderEffect(v) ==
  IF ~v.containerRef \/ v.surfaceMesh = NoMesh
     \/ v.surfaceMesh.vertices = 0 \/ v.surfaceMesh.faces = 0
    THEN v
    ELSE LET v1 == deleteContext(v)
             v2 == [v1 EXCEPT !.contexts = @ + 1,
                              !.vtkContextRef = Scene(v1),
                              !.rendererRef = TRUE,
                              !.surfaceActorRef = TRUE,
                              !.hasCleanup = TRUE,
                              !.sceneOps = Append(@, "build")]
         IN IF v2.rotatingRef THEN startRotation(v2) ELSE v2

(* One commit of the component: prev is what was rendered before, v the
   props and state to render, fresh says that surfaceMesh, segmentResult or
   highlightIds is a new object.  The container is attached or detached,
   the cleanups of the effects whose dependencies changed run, then those
   effects in source order, and the state they set is rendered again. *)
ViewerCommit(prev, v, fresh) ==
  LET opacityChanged == v.props.opacity # prev.props.opacity
      sessionChanged == v.props.sessionId # prev.props.sessionId
      renderChanged == fresh \/ opacityChanged
      v1 == [v EXCEPT !.containerRef = ShowsContainer(v)]
      v2 == IF renderChanged /\ v1.hasCleanup THEN renderCleanup(v1) ELSE v1
      v3 == IF opacityChanged THEN opacityEffect(v2) ELSE v2
      v4 == IF sessionChanged THEN fetchEffect(v3) ELSE v3
      v5 == IF renderChanged THEN renderEffect(v4) ELSE v4
  IN [v5 EXCEPT !.containerRef = ShowsContainer(v5)]

(* the first render and its effects, all of which run *)
ViewerMount(props) ==
  LET v0 == [NoViewer EXCEPT !.status = "mounted", !.props = props]
      v1 == [v0 EXCEPT !.containerRef = ShowsContainer(v0)]
      v2 == renderEffect(fetchEffect(opacityEffect(v1)))
  IN [v2 EXCEPT !.containerRef = ShowsContainer(v2)]

(* unmount: the cleanup of the render effect, if it returned one *)
ViewerUnmount(v) ==
  LET v1 == IF v.hasCleanup THEN renderCleanup(v) ELSE v
  IN [v1 EXCEPT !.status = "unmounted", !.containerRef = FALSE]

(* ----------------------------- Init ----------------------------------- *)
(* the event that produced the state: its kind, its argument (message
   type, close code, command argument), the payload of a result frame and
   the step of a progress frame *)
Op(op, arg, data) == [op |-> op, arg |-> arg, data |-> data, step |-> NULL]
MsgOp(msg) ==
  [op |-> "message", arg |-> msg.type, data |-> msg.data, step |-> msg.step]

Init ==
  /\ socks = <<>>
  /\ wsRef = 0
  /\ phase = "idle"
  /\ progressLog = <<>>
  /\ progressText = ""
  /\ segmentResult = NoData
  /\ queryResult = NoData
  /\ queryResultVersion = 0
  /\ error = NULL
  /\ isConnected = FALSE
  /\ expectingRef = NULL
  /\ activeSession = 0
  /\ messageOps = <<>>
  /\ pendingPromptRef = NULL
  /\ needsSegmentationRef = FALSE
  /\ highlightIds = <<>>
  /\ freshSegmentationRef = FALSE
  /\ sessions = InitialSessions
  /\ restoring = [sid \in SessionIds |-> 0]
  /\ mounted = TRUE
  /\ renders = <<>>
  /\ viewer = NoViewer
  /\ last = Op("init", NULL, NoData)

(* ------------------------ WebSocket events ---------------------------- *)
Socks == 1..Len(socks)
(* A socket that reached CLOSED fires no further event and can send
   nothing: only the fact that it is closed is kept. *)
ClosedWebSocket ==
  [sid |-> 0, readyState |-> "CLOSED", failed |-> FALSE, sent |-> <<>>,
   acked |-> FALSE, done |-> 0, stage |-> 0]
SetReadyState(s, c, rs) ==
  IF rs = "CLOSED" THEN [s EXCEPT !.socks[c] = ClosedWebSocket]
  ELSE [s EXCEPT !.socks[c].readyState = rs]

(* the handshake completes: `open` *)
SockOpen(c) ==
  /\ socks[c].readyState = "CONNECTING"
  /\ Commit(Render(Cur, onopen(SetReadyState(Cur, c, "OPEN"))),
            Op("open", NULL, NoData))

(* The frames the backend sends next on socket k: `connected` once the
   channel is ready, then for each command in the order sent its progress
   events and one terminal result or error (part_003:141-145 and the
   phase names of useShapeSocket.ts:6-21). *)
ServerFrames(k) ==
  IF ~k.acked THEN {ConnectedMsg}
  ELSE IF k.done >= Len(k.sent) THEN {}
  ELSE IF k.sent[k.done + 1].type = "upload_and_segment"
    THEN {ErrorMsg(m) : m \in ServerErrors}
         \cup (IF k.stage < Len(SegmentSteps)
                THEN {ProgressMsg(SegmentSteps[k.stage + 1],
                        IF SegmentSteps[k.stage + 1] = "segmented"
                          THEN [EmptyDetail EXCEPT !.total_segments = 7]
                          ELSE EmptyDetail, NULL)}
                ELSE {ResultMsg(SegmentData(k.sid))})
    ELSE {ErrorMsg(m) : m \in ServerErrors}
         \cup {ResultMsg(AnswerData(hl)) : hl \in ServerHighlights}
         \cup (IF k.stage < MaxToolCalls
                THEN {ProgressMsg("tool_call", EmptyDetail, NULL)} ELSE {})

ServerAdvance(k, msg) ==
  CASE msg.type = "connected" -> [k EXCEPT !.acked = TRUE]
    [] msg.type = "progress" -> [k EXCEPT !.stage = @ + 1]
    [] OTHER -> [k EXCEPT !.done = @ + 1, !.stage = 0]

(* a frame of the backend arrives: `message` *)
ServerMessage(c, msg) ==
  /\ socks[c].readyState = "OPEN"
  /\ msg \in ServerFrames(socks[c])
  /\ Commit(Render(Cur, onmessage([Cur EXCEPT !.socks[c] = ServerAdvance(@, msg)],
                                  msg)),
            MsgOp(msg))

(* any frame arrives: `message` *)
SockMessage(c, msg) ==
  /\ socks[c].readyState = "OPEN"
  /\ Len(progressLog) < MaxLog \/ msg.type # "progress"
  /\ queryResultVersion < MaxVersion \/ msg.type # "result"
  /\ Commit(Render(Cur, onmessage(Cur, msg)), MsgOp(msg))

(* the server closes the connection: `close` with its code *)
SockServerClose(c, code) ==
  /\ socks[c].readyState = "OPEN"
  /\ Commit(Render(Cur, onclose(SetReadyState(Cur, c, "CLOSED"), code)),
            Op("serverClose", ToString(code), NoData))

(* the transport fails: `error` then `close` in one task, the close
   carrying 1006 or the code of a close frame received before the failure *)
FailCloseCodes == {AbnormalClosure, AuthFailedCode}

SockFail(c, code) ==
  /\ socks[c].readyState \in {"CONNECTING", "OPEN"}
  /\ Commit(Render(Cur, onclose(onerror(SetReadyState(Cur, c, "CLOSED")),
                                code)),
            Op("fail", ToString(code), NoData))

(* a close() issued by the page completes: `close`, preceded by `error`
   when the socket had not finished connecting *)
SockClosed(c) ==
  /\ socks[c].readyState = "CLOSING"
  /\ LET s0 == SetReadyState(Cur, c, "CLOSED")
     IN Commit(Render(Cur, IF socks[c].failed
                             THEN onclose(onerror(s0), AbnormalClosure)
                             ELSE onclose(s0, NoStatusRcvd)),
               Op("closed", IF socks[c].failed THEN "error" ELSE NULL, NoData))

(* --------------------------- user events ------------------------------ *)
UserSelectSession(sid) ==
  /\ mounted
  /\ sid \in sessions
  /\ sid # activeSession
  /\ Commit(Render(Cur, handleSelectSession(Cur, sid)), Op("select", NULL, NoData))

(* what the two requests of a restore come back with *)
ChatResponses ==
  {[status |-> 200, body |-> h] : h \in ChatHistories}
  \cup {[status |-> st, body |-> <<>>] : st \in {404, 500}}
SegmentsResponses(sid) ==
  {[status |-> 200, body |-> SegmentData(sid)]}
  \cup {[status |-> st, body |-> NoData] : st \in {404, 500}}

(* Response.ok *)
Ok(res) == res.status \in 200..299

(* getChatHistory, part_003:112-117: the promise it returns *)
getChatHistory(res) ==
  CASE res.status = 404 -> [settled |-> "fulfilled", value |-> <<>>]
    [] ~Ok(res) -> [settled |-> "rejected", value |-> <<>>]
    [] OTHER -> [settled |-> "fulfilled", value |-> res.body]

(* getSegments, part_003:126-131: the promise it returns *)
getSegments(res) ==
  CASE res.status = 404 -> [settled |-> "fulfilled", value |-> NoData]
    [] ~Ok(res) -> [settled |-> "rejected", value |-> NoData]
    [] OTHER -> [settled |-> "fulfilled", value |-> res.body]

(* promise.catch(() => fallback), part_002:311-312 *)
Caught(promise, fallback) ==
  IF promise.settled = "rejected" THEN fallback ELSE promise.value

(* Promise.all of the two fetches resolves, part_002:310-313 *)
RestoreDone(sid, chatRes, segRes) ==
  /\ restoring[sid] > 0
  /\ Commit(Render(Cur, restoreSession(Cur, sid,
                                       Caught(getChatHistory(chatRes), <<>>),
                                       Caught(getSegments(segRes), NoData))),
            Op("restore", NULL, [chat |-> chatRes, segments |-> segRes]))

(* the upload of a new mesh resolves with a session id the backend made *)
UploadDone(sid, modalPrompt) ==
  /\ mounted
  /\ sid \notin sessions
  /\ Commit(Render(Cur, handleCreateInteraction(Cur, sid, modalPrompt)),
            Op("create", NULL, NoData))

UserSendMessage(text) ==
  /\ mounted
  /\ activeSession # 0
  /\ ~isProcessing(phase)
  /\ Commit(Render(Cur, handleSendMessage(Cur, text)), Op("send", NULL, NoData))

Unmount ==
  /\ mounted
  /\ Commit([unmountCleanup(Cur) EXCEPT !.mounted = FALSE],
            Op("unmount", NULL, NoData))

SockLifecycle ==
  \E c \in Socks :
    \/ SockOpen(c)
    \/ \E code \in ServerCloseCodes : SockServerClose(c, code)
    \/ \E code \in FailCloseCodes : SockFail(c, code)
    \/ SockClosed(c)

RestData(sid) == {NoData, SegmentData(sid)}

Next ==
  \/ SockLifecycle
  \/ \E c \in Socks : \E msg \in ServerFrames(socks[c]) : ServerMessage(c, msg)
  \/ \E sid \in SessionIds : UserSelectSession(sid)
  \/ \E sid \in SessionIds, chatRes \in ChatResponses :
       \E segRes \in SegmentsResponses(sid) : RestoreDone(sid, chatRes, segRes)
  \/ \E sid \in SessionIds, p \in ModalPrompts : UploadDone(sid, p)
  \/ \E text \in UserTexts : UserSendMessage(text)

Spec == Init /\ [][Next]_vars

(* ------------- the controller under an arbitrary consumer ------------- *)
(* useShapeSocket's returned functions called directly, in any order, with
   any frames arriving on the open socket. *)
ApiConnect(sid) ==
  /\ mounted
  /\ Commit(Render(Cur, connect(Cur, sid)), Op("connect", NULL, NoData))

ApiDisconnect ==
  /\ mounted
  /\ Commit(Render(Cur, disconnect(Cur)),
            Op("disconnect", IF last.op = "disconnect" THEN "again" ELSE NULL,
               NoData))

ApiTriggerSegmentation(o) ==
  /\ mounted
  /\ Commit(Render(Cur, triggerSegmentation(Cur, TriggerOpts[o])),
            Op("triggerSegmentation", o, NoData))

ApiSendQuery(query) ==
  /\ mounted
  /\ Commit(Render(Cur, sendQuery(Cur, query)),
            Op("sendQuery", query, NoData))

(* the phase a consumer sets after a restore, part_002:329 *)
RestoredPhases == {"segment_done"}

(* setPhase and setSegmentResult are returned to the consumer as they are,
   useShapeSocket.ts:251,255 *)
ApiSetPhase(p) ==
  /\ mounted
  /\ Commit(Render(Cur, [Cur EXCEPT !.phase = p]), Op("setPhase", p, NoData))

ApiSetSegmentResult(d) ==
  /\ mounted
  /\ Commit(Render(Cur, [Cur EXCEPT !.segmentResult = d]),
            Op("setSegmentResult", NULL, d))

NextHook ==
  \/ SockLifecycle
  \/ \E c \in Socks : \E msg \in WsIncoming(socks[c].sid) : SockMessage(c, msg)
  \/ \E sid \in InitialSessions : ApiConnect(sid)
  \/ ApiDisconnect
  \/ \E o \in {"defaults"} : ApiTriggerSegmentation(o)
  \/ \E q \in UserTexts : ApiSendQuery(q)
  \/ \E p \in RestoredPhases : ApiSetPhase(p)
  \/ \E sid \in InitialSessions : \E d \in RestData(sid) : ApiSetSegmentResult(d)
  \/ Unmount

SpecHook == Init /\ [][NextHook]_vars

(* --------- the controller's commands against the backend -------------- *)
(* The consumer connects, reconnects and issues commands with any options
   at any time; the frames are those of the backend. *)
NextCmd ==
  \/ SockLifecycle
  \/ \E c \in Socks : \E msg \in ServerFrames(socks[c]) : ServerMessage(c, msg)
  \/ \E sid \in InitialSessions : ApiConnect(sid)
  \/ \E o \in DOMAIN TriggerOpts : ApiTriggerSegmentation(o)
  \/ \E q \in UserTexts : ApiSendQuery(q)

SpecCmd == Init /\ [][NextCmd]_vars

(* ------------- one fresh upload run to its first answer --------------- *)
(* The dashboard starts empty, one upload resolves, and the backend runs
   the whole pipeline without an error: connected, the seven progress steps
   with any detail and explanation, the segmentation result, then the
   answer to the query with highlight_ids [2, 5]. *)
ScenarioSteps ==
  <<"segmenting", "segmented", "downsampling", "downsampled", "embedding",
    "embedded", "stored">>
ScenarioPrompts == {"", "   "}
ScenarioDetails == {EmptyDetail, [EmptyDetail EXCEPT !.total_segments = 7]}
ScenarioExplanations == {NULL, "Grouping faces"}

ScenarioFrames(k) ==
  IF ~k.acked THEN {ConnectedMsg}
  ELSE IF k.done >= Len(k.sent) THEN {}
  ELSE IF k.sent[k.done + 1].type = "upload_and_segment"
    THEN IF k.stage < Len(ScenarioSteps)
           THEN {ProgressMsg(ScenarioSteps[k.stage + 1], d, e) :
                   d \in ScenarioDetails, e \in ScenarioExplanations}
           ELSE {ResultMsg(SegmentData(k.sid))}
    ELSE {ResultMsg(AnswerData(<<2, 5>>))}

ScenarioMessage(c, msg) ==
  /\ socks[c].readyState = "OPEN"
  /\ msg \in ScenarioFrames(socks[c])
  /\ Commit(Render(Cur, onmessage([Cur EXCEPT !.socks[c] = ServerAdvance(@, msg)],
                                  msg)),
            MsgOp(msg))

ScenarioUpload(sid, modalPrompt) ==
  /\ activeSession = 0
  /\ UploadDone(sid, modalPrompt)

NextScenario ==
  \/ \E sid \in SessionIds, p \in ScenarioPrompts : ScenarioUpload(sid, p)
  \/ \E c \in Socks : SockOpen(c)
  \/ \E c \in Socks : \E msg \in ScenarioFrames(socks[c]) : ScenarioMessage(c, msg)

SpecScenario == Init /\ [][NextScenario]_vars

(* ============================= claims ================================= *)
HookState ==
  <<socks, wsRef, phase, progressLog, progressText, segmentResult,
    queryResult, queryResultVersion, error, isConnected, expectingRef>>

(* C1 -- phase monotonicity: once the phase is segment_done or query_done,
   processing a `connected` frame leaves the phase, and everything else
   the controller holds, as it was. *)
C1_PhaseMonotonic ==
  [][(/\ last'.op = "message"
      /\ last'.arg = "connected"
      /\ phase \in {"segment_done", "query_done"})
     => UNCHANGED HookState]_vars

C1_Witness ==
  /\ last.op = "message"
  /\ last.arg = "connected"
  /\ phase \in {"segment_done", "query_done"}

(* C2 -- result disambiguation: a result payload with an `answer` is stored
   as the query result (phase query_done) whatever the expectation flag
   is; one without it is stored as the segment result (phase segment_done)
   when the flag is `segment` or not set. *)
C2_ResultDisambiguation ==
  [][(last'.op = "message" /\ last'.arg = "result")
     => /\ HasAnswer(last'.data)
             => /\ queryResult' = last'.data
                /\ queryResultVersion' = queryResultVersion + 1
                /\ phase' = "query_done"
                /\ segmentResult' = segmentResult
        /\ (~HasAnswer(last'.data) /\ expectingRef \in {"segment", NULL})
             => /\ segmentResult' = last'.data
                /\ phase' = "segment_done"
                /\ UNCHANGED <<queryResult, queryResultVersion>>]_vars

C2_Witness ==
  /\ last.op = "message"
  /\ last.arg = "result"
  /\ HasAnswer(last.data)
  /\ queryResult = last.data
  /\ phase = "query_done"

(* C3 -- automatic segmentation is never sent on the connection of a
   session that was selected from the history. *)
C3_NoAutoSegmentForRestored ==
  \A c \in Socks :
    \A i \in 1..Len(socks[c].sent) :
      socks[c].sent[i].type = "upload_and_segment"
        => socks[c].sid \notin InitialSessions

AutoPrompts == (ModalPrompts \ {""}) \cup {DefaultPrompt}

(* the frame being processed is the segmentation result of an uploaded
   session *)
FreshSegmentResultArrives ==
  /\ last'.op = "message"
  /\ last'.arg = "result"
  /\ last'.data.kind = "segments"
  /\ wsRef # 0
  /\ socks[wsRef].sid \notin InitialSessions

(* C4 -- auto-query-once, fresh session: processing the terminal
   segmentation result of an uploaded session sends exactly one query, the
   automatic one, on the connection. *)
C4_AutoQueryOnceFresh ==
  [][FreshSegmentResultArrives
     => \E p \in AutoPrompts :
          socks'[wsRef].sent = Append(socks[wsRef].sent, QueryMsg(p))]_vars

(* C5 -- auto-query-once, restored session: completing a restore sends
   nothing and appends nothing to the transcript (it only replaces the
   transcript by the stored one). *)
C5_NoAutoQueryOnRestore ==
  [][last'.op = "restore"
     => /\ socks' = socks
        /\ \A i \in 1..Len(messageOps') : messageOps'[i].op = "set"]_vars

(* C6 -- idempotent teardown: disconnect leaves phase idle, isConnected
   false, no connection and no error set, also with no connection to
   close; a second disconnect in a row changes nothing. *)
C6_IdempotentDisconnect ==
  [][last'.op = "disconnect"
     => /\ phase' = "idle"
        /\ ~isConnected'
        /\ wsRef' = 0
        /\ error' = error
        /\ last.op = "disconnect" => UNCHANGED HookState]_vars

C6_Witness ==
  /\ last.op = "disconnect"
  /\ last.arg = "again"
  /\ phase = "idle"
  /\ ~isConnected

(* C7 -- events after teardown are discarded: the close (and error) event
   of a connection the controller has torn down changes none of phase,
   error, isConnected, progressLog, segmentResult, queryResult. *)
C7_EventsAfterTeardownDiscarded ==
  [][last'.op = "closed"
     => UNCHANGED <<phase, error, isConnected, progressLog, segmentResult,
                    queryResult>>]_vars

(* C8 -- teardown clears the expectation flag: after a session switch the
   flag is null. *)
C8_TeardownClearsExpectation ==
  last.op = "select" => expectingRef = NULL

(* C9 -- at most one live connection: every socket that is connecting or
   open is the one the controller holds. *)
C9_AtMostOneLive ==
  \A c \in Socks :
    socks[c].readyState \in {"CONNECTING", "OPEN"} => c = wsRef

C9_Witness ==
  /\ last.op = "connect"
  /\ wsRef = 2
  /\ socks[1].readyState = "CLOSING"

(* C10 -- misuse is a no-op: triggerSegmentation or sendQuery with no
   connection, or with one that is not open, sends nothing and leaves
   phase, expectation flag, progress log and progress text unchanged. *)
C10_MisuseNoOp ==
  [][(last'.op \in {"triggerSegmentation", "sendQuery"} /\ ~WsIsOpen(Cur))
     => UNCHANGED <<socks, phase, expectingRef, progressLog, progressText>>]_vars

C10_Witness ==
  /\ last.op = "triggerSegmentation"
  /\ wsRef # 0
  /\ socks[wsRef].readyState = "CONNECTING"

(* the upload_and_segment message the caller's options ask for *)
ExpectedSegmentCommand ==
  [defaults |-> [type |-> "upload_and_segment", target_step |-> 1,
                 downsample_nodes |-> 16, embed |-> TRUE, query |-> NULL],
   explicit |-> [type |-> "upload_and_segment", target_step |-> 0,
                 downsample_nodes |-> 0, embed |-> FALSE, query |-> NULL]]

(* C11 -- triggerSegmentation on an open connection sends exactly one
   upload_and_segment message carrying the caller's options where given
   (a given 0 or false is kept) and the defaults 1.0 / 16 / true otherwise,
   sets the expectation flag to segment, empties the progress log and sets
   the phase to segmenting. *)
C11_TriggerSegmentation ==
  [][(last'.op = "triggerSegmentation" /\ WsIsOpen(Cur))
     => /\ socks' = [socks EXCEPT ![wsRef].sent =
                       Append(@, ExpectedSegmentCommand[last'.arg])]
        /\ expectingRef' = "segment"
        /\ progressLog' = <<>>
        /\ phase' = "segmenting"]_vars

C11_Witness ==
  /\ last.op = "triggerSegmentation"
  /\ last.arg = "explicit"
  /\ wsRef # 0
  /\ Len(socks[wsRef].sent) > 0
  /\ socks[wsRef].sent[Len(socks[wsRef].sent)].embed = FALSE
  /\ phase = "segmenting"

(* C12 -- query run ordering: sendQuery(text) on an open connection sends
   exactly one query message carrying text and sets the expectation flag to
   query and the phase to parsing_query; every tool_call progress event
   sets the phase to tool_call; and the result event that arrives while
   the flag is query stores its payload as the query result and moves the
   phase to query_done. *)
C12_QueryRunOrdering ==
  [][/\ (last'.op = "sendQuery" /\ WsIsOpen(Cur))
        => /\ socks' = [socks EXCEPT ![wsRef].sent =
                          Append(@, [type |-> "query", target_step |-> 0,
                                     downsample_nodes |-> 0, embed |-> FALSE,
                                     query |-> last'.arg])]
           /\ expectingRef' = "query"
           /\ phase' = "parsing_query"
     /\ (last'.op = "message" /\ last'.step = "tool_call")
        => phase' = "tool_call"
     /\ (last'.op = "message" /\ last'.arg = "result"
           /\ expectingRef = "query")
        => /\ queryResult' = last'.data
           /\ queryResultVersion' = queryResultVersion + 1
           /\ phase' = "query_done"]_vars

C12_Witness ==
  /\ last.op = "message"
  /\ last.arg = "result"
  /\ phase = "query_done"
  /\ queryResult = last.data
  /\ HasAnswer(queryResult)
  /\ Len(progressLog) > 0
  /\ progressLog[Len(progressLog)].step = "tool_call"

(* this step sends one command on the held connection *)
CommandSent ==
  /\ wsRef # 0
  /\ wsRef' = wsRef
  /\ Len(socks'[wsRef].sent) = Len(socks[wsRef].sent) + 1

SentCommand == socks'[wsRef].sent[Len(socks'[wsRef].sent)]

(* C13 -- expectation flag lifecycle: right after an upload_and_segment
   command is sent the flag is segment, right after a query command is
   sent it is query, after every processed result it is null, and it is
   never set by a step that sends no command. *)
C13_ExpectationLifecycle ==
  [][/\ CommandSent
        => expectingRef' = IF SentCommand.type = "upload_and_segment"
                             THEN "segment" ELSE "query"
     /\ (last'.op = "message" /\ last'.arg = "result")
        => expectingRef' = NULL
     /\ (expectingRef' # expectingRef /\ expectingRef' # NULL)
        => CommandSent]_vars

C13_Witness ==
  /\ last.op = "message"
  /\ last.arg = "result"
  /\ expectingRef = NULL
  /\ wsRef # 0
  /\ Len(socks[wsRef].sent) > 0

(* C14 -- the phase is always a member of the PipelinePhase enumeration,
   whatever frames arrive, including a progress frame whose step is not one
   of its names. *)
C14_PhaseInEnumeration == phase \in PipelinePhase

(* C15 -- from any phase, a server error frame or a transport error on the
   held connection moves the phase to error and stores a non-empty message
   (the server's, or the generic connection-failed one); the server error
   leaves segmentResult and queryResult unchanged. *)
C15_ErrorsMoveToError ==
  [][/\ (last'.op = "message" /\ last'.arg = "error")
        => /\ phase' = "error"
           /\ error' \in ServerErrors
           /\ error' # ""
           /\ UNCHANGED <<segmentResult, queryResult>>
     /\ last'.op = "fail"
        => /\ phase' = "error"
           /\ error' \notin {NULL, ""}
           /\ last'.arg = ToString(AbnormalClosure)
                => error' = "WebSocket connection failed."]_vars

C15_Witness ==
  /\ last.op = "message"
  /\ last.arg = "error"
  /\ phase = "error"
  /\ segmentResult # NoData
  /\ queryResult # NoData

(* C16 -- a close of the held connection with code 4001 sets the phase to
   error and the error to the authentication-failed message, also when the
   connection's error event was processed just before its close event. *)
C16_AuthFailedClose ==
  [][(last'.op \in {"serverClose", "fail"}
        /\ last'.arg = ToString(AuthFailedCode))
     => /\ phase' = "error"
        /\ error' = "Authentication failed. Please sign in again."]_vars

C16_Witness ==
  /\ last.op = "fail"
  /\ last.arg = ToString(AuthFailedCode)
  /\ error = "Authentication failed. Please sign in again."

(* close codes of a close the page did not ask for that are neither the
   normal closure nor the authentication failure *)
OtherAbnormalCodes == {ToString(code) : code \in ServerCloseCodes \ {1000, AuthFailedCode}}

(* C17 -- an abnormal close of the held connection with a code other than
   4001, not initiated by the page, moves the phase to error and sets an
   error message, whether or not an error event was delivered. *)
C17_AbnormalCloseSurfaces ==
  [][(last'.op = "serverClose" /\ last'.arg \in OtherAbnormalCodes)
     => /\ phase' = "error"
        /\ error' \notin {NULL, ""}]_vars

(* C18 -- a malformed or undecodable inbound frame moves the phase to
   error and surfaces a message (the error state, which the dashboard
   copies to the transcript). *)
C18_MalformedIsProtocolError ==
  [][(last'.op = "message" /\ last'.arg \in {"malformed", "unknown"})
     => /\ phase' = "error"
        /\ error' \notin {NULL, ""}]_vars

(* commands sent on socket c that the backend has not yet answered with
   a result or an error *)
Outstanding(c) == Len(socks[c].sent) - socks[c].done

(* C19 -- no overlapping requests: the dashboard sends a query only in a
   resting phase, so at most one command is outstanding on a connection
   at any time. *)
C19_NoOverlappingRequests ==
  \A c \in Socks : Outstanding(c) <= 1

ExpectedPhases ==
  <<"idle", "connecting", "connected", "segmenting", "segmented",
    "downsampling", "downsampled", "embedding", "embedded", "stored",
    "segment_done", "parsing_query", "query_done">>

PhaseIndex(p) == CHOOSE i \in 1..Len(ExpectedPhases) : ExpectedPhases[i] = p

ExpectedOutbound ==
  <<[type |-> "upload_and_segment", target_step |-> 1,
     downsample_nodes |-> 16, embed |-> TRUE, query |-> NULL],
    [type |-> "query", target_step |-> 0, downsample_nodes |-> 0,
     embed |-> FALSE, query |-> "describe this geometry"]>>

(* C20 -- end-to-end run of a freshly uploaded session: the phases shown
   are connecting, connected, segmenting, segmented, downsampling,
   downsampled, embedding, embedded, stored, segment_done, parsing_query,
   query_done, each following the one before; the outbound messages are
   one upload_and_segment followed by one query "describe this geometry";
   and at query_done the highlight set is [2, 5]. *)
C20_EndToEnd ==
  /\ [][/\ phase \in {ExpectedPhases[i] : i \in 1..Len(ExpectedPhases)}
        /\ PhaseIndex(phase) + Len(renders') <= Len(ExpectedPhases)
        /\ \A k \in 1..Len(renders') :
             renders'[k] = ExpectedPhases[PhaseIndex(phase) + k]
        /\ phase' = IF renders' = <<>> THEN phase
                    ELSE renders'[Len(renders')]]_vars
  /\ [](\A c \in Socks :
          /\ Len(socks[c].sent) <= Len(ExpectedOutbound)
          /\ socks[c].sent = SubSeq(ExpectedOutbound, 1, Len(socks[c].sent)))
  /\ [](phase = "query_done"
          => /\ highlightIds = <<2, 5>>
             /\ \A c \in Socks : socks[c].sent = ExpectedOutbound)

C20_Witness ==
  /\ phase = "query_done"
  /\ highlightIds = <<2, 5>>
  /\ Len(progressLog) = Len(ScenarioSteps)
  /\ wsRef # 0
  /\ socks[wsRef].sent = ExpectedOutbound

(* ------------------- MeshViewer: specification ------------------------ *)
(* The viewer on its own: its props are set by the page (session switch,
   upload, segmentation result, highlight set, opacity slider), its handle
   is called by the toolbar, the browser runs its animation frames and
   settles its fetches.  Nothing here is given the page's state. *)
pageVars ==
  <<socks, wsRef, phase, progressLog, progressText, segmentResult,
    queryResult, queryResultVersion, error, isConnected, expectingRef,
    activeSession, messageOps, pendingPromptRef,
    needsSegmentationRef, highlightIds, freshSegmentationRef, sessions,
    restoring, mounted, renders>>

ViewerStep(v, op) ==
  /\ viewer' = v
  /\ last' = op
  /\ UNCHANGED pageVars

(* the component at the start of an event *)
CurViewer == [viewer EXCEPT !.sceneOps = <<>>]

(* part_002:539-550: the viewer is rendered once a session is active *)
MountViewer(sid, r, h, o) ==
  /\ viewer.status = "absent"
  /\ ViewerStep(ViewerMount([sessionId |-> sid, segmentResult |-> r,
                             highlightIds |-> h, opacity |-> o]),
                Op("mount", NULL, NoData))

(* handleSelectSession, part_002:298-301 (reset), and
   handleCreateInteraction, part_002:252 (sessionId alone) *)
ViewerSetSession(sid, reset) ==
  /\ viewer.status = "mounted"
  /\ sid # viewer.props.sessionId
  /\ sid \notin viewer.fetches
  /\ LET p == IF reset
                THEN [CurViewer.props EXCEPT !.sessionId = sid,
                                          !.highlightIds = <<>>,
                                          !.segmentResult = NoSegments]
                ELSE [CurViewer.props EXCEPT !.sessionId = sid]
     IN ViewerStep(ViewerCommit(CurViewer, [CurViewer EXCEPT !.props = p],
                                reset),
                   Op("session", IF reset THEN "select" ELSE "upload",
                      NoData))

(* a result frame or a restore sets segmentResult,
   useShapeSocket.ts:150-161, part_002:327-330 *)
ViewerSetSegmentResult(r) ==
  /\ viewer.status = "mounted"
  /\ r # NoSegments
  /\ ViewerStep(ViewerCommit(CurViewer,
                             [CurViewer EXCEPT !.props.segmentResult = r], TRUE),
                Op("segments", NULL, NoData))

(* setHighlightIds(queryResult.highlight_ids), part_002:179 *)
ViewerSetHighlightIds(h) ==
  /\ viewer.status = "mounted"
  /\ Len(h) > 0
  /\ ViewerStep(ViewerCommit(CurViewer,
                             [CurViewer EXCEPT !.props.highlightIds = h], TRUE),
                Op("highlight", NULL, NoData))

(* the opacity slider, part_002:458-462 *)
ViewerSetOpacity(o) ==
  /\ viewer.status = "mounted"
  /\ o # CurViewer.props.opacity
  /\ ViewerStep(ViewerCommit(CurViewer,
                             [CurViewer EXCEPT !.props.opacity = o], FALSE),
                Op("opacity", NULL, NoData))

(* a getSurfaceMesh promise settles: every mesh it stores is a new object;
   an unmounted component ignores the state it sets *)
MeshFetched(sid, res) ==
  /\ sid \in viewer.fetches
  /\ LET promise == getSurfaceMesh(res)
         v0 == [CurViewer EXCEPT !.fetches = @ \ {sid}]
         v1 == fetchSettled(v0, promise)
     IN ViewerStep(IF viewer.status = "mounted"
                     THEN ViewerCommit(v0, v1,
                                       /\ promise.settled = "fulfilled"
                                       /\ v1.surfaceMesh = promise.data)
                     ELSE v0,
                   Op("fetched", promise.settled, res))

(* the toolbar, part_002:474-503 *)
ToggleRotation ==
  /\ viewer.status = "mounted"
  /\ LET v == toggleRotation(CurViewer)
     IN ViewerStep(v, Op("toggleRotation", ToString(v.rotatingRef), NoData))

Zoom(dir) ==
  /\ viewer.status = "mounted"
  /\ viewer.rendererRef => viewer.vtkContextRef.camera.distance = FitDistance
  /\ ViewerStep(zoom(CurViewer, dir), Op(dir, NULL, NoData))

ResetCamera ==
  /\ viewer.status = "mounted"
  /\ viewer.rendererRef => viewer.vtkContextRef.camera.azimuth < MaxTurn
  /\ ViewerStep(resetCamera(CurViewer), Op("resetCamera", NULL, NoData))

(* the browser runs a queued animation frame callback *)
AnimationFrame(dt) ==
  /\ viewer.rafQueue > 0
  /\ viewer.rendererRef => viewer.vtkContextRef.camera.azimuth < MaxTurn
  /\ ViewerStep(animate(CurViewer, dt), Op("frame", NULL, NoData))

UnmountViewer ==
  /\ viewer.status = "mounted"
  /\ ViewerStep(ViewerUnmount(CurViewer), Op("unmountViewer", NULL, NoData))

NextViewer ==
  \/ \E sid \in SessionIds, r \in ViewerResults, h \in ViewerHighlights,
        o \in Opacities : MountViewer(sid, r, h, o)
  \/ \E sid \in SessionIds, reset \in BOOLEAN : ViewerSetSession(sid, reset)
  \/ \E r \in ViewerResults : ViewerSetSegmentResult(r)
  \/ \E h \in ViewerHighlights : ViewerSetHighlightIds(h)
  \/ \E o \in Opacities : ViewerSetOpacity(o)
  \/ \E sid \in SessionIds : \E res \in MeshResponses(sid) : MeshFetched(sid, res)
  \/ ToggleRotation
  \/ \E dir \in DOMAIN ZoomFactor : Zoom(dir)
  \/ ResetCamera
  \/ \E dt \in FrameSeconds : AnimationFrame(dt)
  \/ UnmountViewer

SpecViewer == Init /\ [][NextViewer]_vars

(* ------------------------- claims: viewer ----------------------------- *)
(* the scene the viewer's refs point to, if one is built *)
HasScene == viewer.vtkContextRef # NoContext
ViewerSegments == viewer.props.segmentResult.segments

(* the colour the contract gives a segment: highlight if its id is in the
   highlight set, else the table colour of its type, else the default *)
ContractColor(seg, ids) ==
  CASE \E i \in DOMAIN ids : ids[i] = seg.segment_id -> HIGHLIGHT_COLOR
    [] seg.type = "straight" -> <<90, 178, 242>>
    [] seg.type = "arc" -> <<242, 140, 90>>
    [] seg.type = "junction" -> <<110, 210, 110>>
    [] seg.type = "corner" -> <<230, 100, 140>>
    [] OTHER -> DEFAULT_MESH_COLOR

(* the positions, in result order, of the segments that list face f *)
Listing(f) ==
  {k \in DOMAIN ViewerSegments :
     \E j \in DOMAIN ViewerSegments[k].face_ids :
        ViewerSegments[k].face_ids[j] = f}

LastOf(S) == CHOOSE k \in S : \A j \in S : j <= k

(* C21: in a built scene every face has the colour of the last segment, in
   result order, whose face ids contain it, and the default colour when no
   segment lists it. *)
C21_FaceColorOverrideOrder ==
  HasScene =>
    \A i \in DOMAIN viewer.vtkContextRef.faceColors :
       viewer.vtkContextRef.faceColors[i] =
         IF Listing(i - 1) = {}
           THEN DEFAULT_MESH_COLOR
           ELSE ContractColor(ViewerSegments[LastOf(Listing(i - 1))],
                              viewer.props.highlightIds)

(* C21 witness: a built scene in which a face is listed by two segments of
   different colours and another face by none. *)
C21_Witness ==
  /\ HasScene
  /\ \E f \in 0..(NumFaces - 1) :
       /\ Cardinality(Listing(f)) = 2
       /\ \E j, k \in Listing(f) :
            ContractColor(ViewerSegments[j], viewer.props.highlightIds)
              # ContractColor(ViewerSegments[k], viewer.props.highlightIds)
  /\ \E f \in 0..(NumFaces - 1) : Listing(f) = {}

(* the centerline colours the contract gives: the segment's colour on each
   of its nodes, for the segments that have a line to draw *)
RECURSIVE ContractCenterline(_, _)
ContractCenterline(segments, ids) ==
  IF segments = <<>>
    THEN <<>>
    ELSE (IF Head(segments).downsampled_nodes >= 2
            THEN [n \in 1..Head(segments).downsampled_nodes |->
                    ContractColor(Head(segments), ids)]
            ELSE <<>>)
         \o ContractCenterline(Tail(segments), ids)

(* C22: in a built scene every segment's colour is the highlight colour
   when its id is highlighted, else the table colour of its type, else the
   default; its centerline carries that colour on every node and it is the
   colour the segment writes to its faces. *)
C22_SegmentColorRule ==
  HasScene =>
    /\ \A k \in DOMAIN ViewerSegments :
         /\ SurfaceColor(ViewerSegments[k], viewer.props.highlightIds)
              = ContractColor(ViewerSegments[k], viewer.props.highlightIds)
         /\ CenterlineColor(ViewerSegments[k], viewer.props.highlightIds)
              = SurfaceColor(ViewerSegments[k], viewer.props.highlightIds)
    /\ viewer.vtkContextRef.clColors
         = ContractCenterline(ViewerSegments, viewer.props.highlightIds)
    /\ \A f \in 0..(Len(viewer.vtkContextRef.faceColors) - 1) :
         Listing(f) # {} =>
           viewer.vtkContextRef.faceColors[f + 1]
             = CenterlineColor(ViewerSegments[LastOf(Listing(f))],
                               viewer.props.highlightIds)

(* C22 witness: a built scene with a highlighted segment and a segment
   coloured by its type, both with a centerline, the two colours on the
   line. *)
C22_Witness ==
  /\ HasScene
  /\ \E j, k \in DOMAIN ViewerSegments :
       /\ Includes(viewer.props.highlightIds, ViewerSegments[j].segment_id)
       /\ ~Includes(viewer.props.highlightIds, ViewerSegments[k].segment_id)
       /\ ViewerSegments[k].type \in DOMAIN SEGMENT_COLORS
       /\ ViewerSegments[j].downsampled_nodes >= 2
       /\ ViewerSegments[k].downsampled_nodes >= 2
  /\ Includes(viewer.vtkContextRef.clColors, HIGHLIGHT_COLOR)
  /\ \E ty \in DOMAIN SEGMENT_COLORS :
       Includes(viewer.vtkContextRef.clColors, SEGMENT_COLORS[ty])

(* the highlight ids that name a segment of the current result *)
IsSegmentId(id) ==
  \E k \in DOMAIN ViewerSegments : ViewerSegments[k].segment_id = id
PresentHighlights == SelectSeq(viewer.props.highlightIds, IsSegmentId)

(* C23: a highlight id that names no segment of the result is ignored: the
   face and centerline colours of a built scene are those the build gives
   with such ids removed from the highlight set. *)
C23_HighlightSubset ==
  HasScene =>
    /\ viewer.vtkContextRef.faceColors
         = FaceColors(viewer.surfaceMesh.faces, viewer.props.segmentResult,
                      PresentHighlights)
    /\ viewer.vtkContextRef.clColors
         = CenterlineColors(ViewerSegments, PresentHighlights)

(* C23 witness: a scene built from a result with segments under a highlight
   set that has an id of the result and an id that is not in it. *)
C23_Witness ==
  /\ HasScene
  /\ ViewerSegments # <<>>
  /\ \E i \in DOMAIN viewer.props.highlightIds :
       ~IsSegmentId(viewer.props.highlightIds[i])
  /\ Len(PresentHighlights) > 0
  /\ Includes(viewer.vtkContextRef.faceColors, HIGHLIGHT_COLOR)

(* C24: an opacity change updates the opacity of the surface that is
   there and nothing else: no context is deleted or created, and the scene
   keeps its geometry, colours and camera. *)
C24_OpacityDoesNotRebuild ==
  [][last'.op = "opacity" /\ HasScene
     => /\ viewer'.sceneOps = <<>>
        /\ viewer'.vtkContextRef
             = [viewer.vtkContextRef EXCEPT !.opacity = viewer'.props.opacity]]_vars

(* C25: a build on top of a built scene first deletes that scene's
   context, so at most one context is live, it is the one the refs point to,
   and none is left after unmount. *)
C25_ReleaseBeforeConstruct ==
  [][/\ (HasScene /\ Includes(viewer'.sceneOps, "build"))
          => viewer'.sceneOps = <<"delete", "build">>
     /\ viewer'.contexts <= 1
     /\ viewer'.contexts = 1 <=> viewer'.vtkContextRef # NoContext
     /\ viewer'.status = "unmounted" => viewer'.contexts = 0]_vars

(* C25 witness: a rebuild over a live scene has just happened. *)
C25_Witness ==
  /\ viewer.sceneOps = <<"delete", "build">>
  /\ viewer.contexts = 1
  /\ last.op \in {"segments", "highlight", "fetched"}

(* C26: toggleRotation flips the rotation flag and returns the new value,
   two calls in a row give the flag it started from, and a toggle that
   leaves the flag false leaves no animation frame callback queued. *)
C26_RotationToggling ==
  [][last'.op = "toggleRotation"
     => /\ viewer'.rotatingRef = ~viewer.rotatingRef
        /\ last'.arg = ToString(viewer'.rotatingRef)
        /\ toggleRotation(toggleRotation(viewer)).rotatingRef
             = viewer.rotatingRef
        /\ toggleRotation(viewer').rotatingRef = viewer.rotatingRef
        /\ ~viewer'.rotatingRef
             => viewer'.rafQueue = 0 /\ viewer'.rafIdRef = NULL]_vars

(* C26 witness: the rotation of a built scene, whose loop was running, has
   just been toggled off. *)
C26_Witness ==
  /\ last.op = "toggleRotation"
  /\ last.arg = ToString(FALSE)
  /\ ~viewer.rotatingRef
  /\ HasScene
  /\ viewer.rafQueue = 0

(* C27: a frame that finds the rotation flag cleared queues no further
   frame, and once the scene is torn down (a cleanup that leaves no scene,
   or the unmount of the component, with or without a scene built) no
   animation frame callback is queued. *)
C27_NoTickAfterTeardown ==
  [][/\ (last'.op = "frame" /\ ~viewer.rotatingRef) => viewer'.rafQueue = 0
     /\ (HasScene /\ viewer'.vtkContextRef = NoContext) => viewer'.rafQueue = 0
     /\ last'.op = "unmountViewer" => viewer'.rafQueue = 0]_vars

EmptyMeshError == "Mesh data is empty or has unexpected format."

(* the message of the failure behind a response that is not a mesh *)
UnderlyingMessage(res) ==
  CASE res.kind = "http" ->
         "Failed to load surface mesh (" \o ToString(res.status) \o ")"
    [] res.message = "" -> "unknown error"
    [] OTHER -> res.message

(* C28: a fetched mesh without vertices or without faces gives the viewer
   its empty-mesh error and is neither stored nor built; a failed fetch
   gives the load-failed error with the message of the failure; both show
   the error view, and neither touches the pipeline phase. *)
C28_MeshDataFailures ==
  [][(last'.op = "fetched" /\ viewer.status = "mounted")
     => /\ phase' = phase
        /\ (last'.data.kind = "ok"
            /\ (last'.data.data.vertices = 0 \/ last'.data.data.faces = 0))
             => /\ viewer'.error = EmptyMeshError
                /\ viewer'.surfaceMesh = viewer.surfaceMesh
                /\ ~Includes(viewer'.sceneOps, "build")
                /\ ~ShowsContainer(viewer')
        /\ last'.data.kind # "ok"
             => /\ viewer'.error
                     = "Could not load mesh: " \o UnderlyingMessage(last'.data)
                /\ viewer'.error # EmptyMeshError
                /\ viewer'.surfaceMesh = viewer.surfaceMesh
                /\ ~Includes(viewer'.sceneOps, "build")
                /\ ~ShowsContainer(viewer')
        /\ viewer'.surfaceMesh # NoMesh
             => viewer'.surfaceMesh.vertices > 0 /\ viewer'.surfaceMesh.faces > 0
        /\ viewer'.vtkContextRef # NoContext
             => Len(viewer'.vtkContextRef.faceColors) > 0]_vars

(* C28 witness: a mesh with vertices and no faces has just been fetched and
   the viewer shows the empty-mesh error. *)
C28_Witness ==
  /\ last.op = "fetched"
  /\ viewer.status = "mounted"
  /\ last.data.kind = "ok"
  /\ last.data.data.vertices > 0
  /\ last.data.data.faces = 0
  /\ viewer.error = EmptyMeshError
  /\ ~viewer.loading

(* C29: the camera of a built scene is changed only by zoomIn, zoomOut,
   resetCamera and the animation frames: a new highlight set or a new
   opacity leaves the scene with the camera it had. *)
C29_CameraOnlyByCameraOps ==
  [][(/\ HasScene
      /\ viewer'.vtkContextRef # NoContext
      /\ last'.op \in {"highlight", "opacity"})
     => viewer'.vtkContextRef.camera = viewer.vtkContextRef.camera]_vars

(* ------------------------- claims: restore ---------------------------- *)
(* C30: when a restore completes, a 404 of the segments request leaves
   segmentResult, phase and error as they are and adds no system message to
   the transcript; a 404 of the chat request writes no transcript; and the
   body of the other request is applied all the same. *)
C30_Restore404 ==
  [][last'.op = "restore"
     => /\ last'.data.segments.status = 404
             => /\ segmentResult' = segmentResult
                /\ phase' = phase
                /\ error' = error
                /\ \A i \in 1..Len(messageOps') :
                     messageOps'[i].op = "append"
                       => messageOps'[i].value[1].role # "system"
        /\ last'.data.chat.status = 404
             => \A i \in 1..Len(messageOps') : messageOps'[i].op # "set"
        /\ (last'.data.segments.status = 404 /\ last'.data.chat.status = 200
            /\ Len(last'.data.chat.body) > 0)
             => messageOps'
                  = <<[op |-> "set",
                       value |-> [i \in 1..Len(last'.data.chat.body) |->
                                    RestoredMessage(last'.data.chat.body[i])]]>>
        /\ (last'.data.chat.status = 404 /\ last'.data.segments.status = 200)
             => segmentResult' = last'.data.segments.body]_vars

(* C30 witness: a restore has just completed whose segments request got a
   404 and whose chat request got a stored transcript, which is applied. *)
C30_Witness ==
  /\ last.op = "restore"
  /\ last.data.segments.status = 404
  /\ last.data.chat.status = 200
  /\ Len(last.data.chat.body) > 0
  /\ Len(messageOps) = 1
  /\ messageOps[1].op = "set"
  /\ segmentResult = NoData
  /\ phase # "segment_done"

(* ------------------------ claims: liveness ---------------------------- *)
(* What the browser and the backend do without being asked: a handshake
   completes, a close() issued by the page completes, the backend sends
   the frames it owes, a restore's fetches settle.  Failures and user
   actions may or may not happen. *)
Delivery ==
  \/ \E c \in Socks : SockOpen(c) \/ SockClosed(c)
  \/ \E c \in Socks : \E msg \in ServerFrames(socks[c]) : ServerMessage(c, msg)
  \/ \E sid \in SessionIds, chatRes \in ChatResponses :
       \E segRes \in SegmentsResponses(sid) : RestoreDone(sid, chatRes, segRes)

(* The event loop runs every queued socket event and every settled promise:
   a delivery that stays possible is eventually made. *)
SpecFair == Spec /\ WF_vars(Delivery)

RestPhases == {"error", "idle", "segment_done", "query_done"}

(* the controller's connection is gone while the phase is transient *)
LostInTransient ==
  /\ wsRef # 0
  /\ socks[wsRef].readyState = "CLOSED"
  /\ isProcessing(phase)
  /\ \A sid \in SessionIds : restoring[sid] = 0

(* C31: once the connection is lost while the phase is transient, the phase
   eventually is a rest phase. *)
C31_NoRunStuck == LostInTransient ~> (phase \in RestPhases)

(* ------------------------ claims: progress log ------------------------ *)
LogSteps(log) == [i \in 1..Len(log) |-> log[i].step]

(* the call reached the reset: the current socket was open when it was made *)
CommandAccepted == wsRef # 0 /\ socks[wsRef].readyState = "OPEN"

(* C32: the progress log is the sequence of progress events processed since
   the latest connect() or accepted triggerSegmentation(), in arrival order:
   those two calls empty it, a progress event appends its entry at the end and
   keeps the entries before it, and no other step changes it. *)
C32_ProgressLogAppendOnly ==
  [][CASE last'.op = "connect" -> progressLog' = <<>>
       [] last'.op = "triggerSegmentation" /\ CommandAccepted ->
            progressLog' = <<>>
       [] last'.op = "message" /\ last'.arg = "progress" ->
            /\ Len(progressLog') = Len(progressLog) + 1
            /\ SubSeq(progressLog', 1, Len(progressLog)) = progressLog
            /\ progressLog'[Len(progressLog')].step = last'.step
       [] OTHER -> progressLog' = progressLog]_vars

C32_Witness ==
  /\ last.op = "message"
  /\ last.arg = "progress"
  /\ LogSteps(progressLog) = <<"segmenting", "segmented", "stored">>

(* ------------------- claims: connect and disconnect ------------------- *)
ResultsKept ==
  /\ segmentResult' = segmentResult
  /\ queryResult' = queryResult
  /\ queryResultVersion' = queryResultVersion

(* C33: connect() and disconnect() leave segmentResult and queryResult as they
   are.  Besides replacing the connection, connect only sets phase to
   connecting and resets error, progress log and progress text; besides
   dropping the connection, disconnect only sets isConnected false and phase
   idle. *)
C33_ConnectDisconnectFrame ==
  [][/\ last'.op = "connect" =>
          /\ ResultsKept
          /\ phase' = "connecting"
          /\ error' = NULL
          /\ progressLog' = <<>>
          /\ progressText' = ""
          /\ isConnected' = isConnected
          /\ expectingRef' = expectingRef
     /\ last'.op = "disconnect" =>
          /\ ResultsKept
          /\ isConnected' = FALSE
          /\ phase' = "idle"
          /\ wsRef' = 0
          /\ error' = error
          /\ progressLog' = progressLog
          /\ progressText' = progressText
          /\ expectingRef' = expectingRef]_vars

C33_Witness ==
  /\ last.op \in {"connect", "disconnect"}
  /\ segmentResult # NoData
  /\ queryResult # NoData
  /\ queryResultVersion > 0

(* ----------------------- claims: query results ------------------------ *)
(* the assistant messages the latest event appended to the transcript *)
AssistantAppends(ops) ==
  Cardinality({i \in 1..Len(ops) : /\ ops[i].op = "append"
                                   /\ ops[i].value[1].role = "assistant"})

(* the step processes a `result` frame that the controller classifies as a
   query result, while the page is mounted *)
QueryResultEvent ==
  /\ mounted
  /\ last'.op = "message"
  /\ last'.arg = "result"
  /\ IsQueryResult(expectingRef, last'.data)

(* C34: queryResultVersion goes up by exactly one on every result event
   classified as a query result and is unchanged by every other step, and the
   dashboard appends exactly one assistant message on each such event and none
   on any other, also when the result equals the one before it. *)
C34_OneAnswerPerQueryResult ==
  [][/\ queryResultVersion' =
          queryResultVersion + (IF QueryResultEvent THEN 1 ELSE 0)
     /\ AssistantAppends(messageOps') = (IF QueryResultEvent THEN 1 ELSE 0)
     /\ QueryResultEvent => queryResult' = last'.data]_vars

(* a second query result has arrived that equals the first *)
C34_Witness ==
  /\ last.op = "message"
  /\ last.arg = "result"
  /\ queryResultVersion = 2
  /\ queryResult = last.data
  /\ \A hl \in ServerHighlights : queryResult = AnswerData(hl)
  /\ AssistantAppends(messageOps) = 1

(* ------------------- claims: results and sessions --------------------- *)
(* C35: the segmentResult the dashboard holds is null or belongs to the
   active session. *)
C35_SegmentResultOfActiveSession ==
  segmentResult = NoData \/ segmentResult.sid = activeSession

(* C36: a mesh response is stored only for the session the viewer currently
   shows: when a fetch settles, the surface mesh the viewer holds afterwards
   is the one it held before or a mesh of the current session. *)
C36_StaleMeshNotStored ==
  [][last'.op = "fetched" /\ viewer.status = "mounted"
       => \/ viewer'.surfaceMesh = viewer.surfaceMesh
          \/ viewer'.surfaceMesh.sid = viewer'.props.sessionId]_vars

(* ----------------------- claims: connection flag ---------------------- *)
(* the controller's current connection is open *)
CurrentOpen == wsRef # 0 /\ socks[wsRef].readyState = "OPEN"

(* C37: isConnected is true exactly when the controller's current connection
   is open. *)
C37_IsConnectedIffOpen == mounted => (isConnected <=> CurrentOpen)

(* C38: after a query result is processed the highlight set is that result's
   highlight_ids (an empty list clears it), and creating a new session leaves
   no highlights of the session before it. *)
C38_HighlightsFollowResult ==
  [][/\ QueryResultEvent => highlightIds' = last'.data.highlight_ids
     /\ last'.op = "create" => highlightIds' = <<>>]_vars

(* ----------------------- claims: animation loop ----------------------- *)
(* C39: at most one animation frame callback is queued at any time, the
   handle the viewer keeps says whether one is queued, and one is queued only
   while the rotation flag is true. *)
C39_SingleAnimationLoop ==
  /\ viewer.rafQueue <= 1
  /\ viewer.rafQueue = 1 <=> viewer.rafIdRef # NULL
  /\ viewer.rafQueue > 0 => viewer.rotatingRef

(* C39 witness: a frame has run on a built scene, turned the camera and
   queued the next frame, which is the only one queued. *)
C39_Witness ==
  /\ last.op = "frame"
  /\ HasScene
  /\ viewer.rotationAngleRef > 0
  /\ viewer.rotatingRef
  /\ viewer.rafQueue = 1

(* ------------------- claims: restore and failures --------------------- *)
(* C40: when the current connection has failed (phase error), the completion
   of the restore of the active session leaves the phase at error; it does
   not move it to segment_done. *)
C40_RestoreKeepsFailure ==
  [][/\ last'.op = "restore"
     /\ phase = "error"
     /\ ~CurrentOpen
     /\ last'.data.segments.body.sid = activeSession
     => phase' = "error"]_vars

====
